---- MODULE Spec2Model ----
(***************************************************************************)
(* The solar analysis platform, in five parts that share no state:         *)
(*   - SolarCalculator's calculateMetrics and calculateMissionEnergy, as   *)
(*     they are driven by the dashboard hooks            (Spec);           *)
(*   - SolarCalculator's calculateSystemLosses and calculateOptimalTilt    *)
(*                                                       (SpecHelpers);    *)
(*   - the server's GET /api/nasa-power proxy            (SpecProxy);      *)
(*   - the server's MemStorage behind the project routes (SpecStorage);    *)
(*   - the legacy SolarLaunchApp's fetchSolarData        (SpecLegacy).     *)
(*                                                                         *)
(* JavaScript numbers are modelled as exact rationals <<n, d>> in lowest   *)
(* terms with d > 0; the non-finite values keep a zero denominator:        *)
(* NaN = <<0,0>>, Infinity = <<1,0>>, -Infinity = <<-1,0>>.  Rounding of   *)
(* IEEE doubles is not modelled, except for Math.sqrt, whose result is     *)
(* rounded down to a multiple of 1/SqrtScale.                              *)
(***************************************************************************)
EXTENDS Integers, Sequences, FiniteSets, TLC

\* the dashboard: useSolarData, useSolarMetrics, missionParameters,
\* useMissionCalculations
VARIABLES nasaData, metrics, parameters, results
\* a call of calculateSystemLosses and a call of calculateOptimalTilt
VARIABLES lossArguments, losses, latitude, tilt
\* one GET /api/nasa-power request: its query, the handler's position, the
\* requests made to the upstream service, the responses written
VARIABLES query, handler, upstreamRequests, responses
\* MemStorage's two maps, the clock behind new Date(), and the last route
\* handled with what its storage call returned and what it answered
VARIABLES solarProjects, solarDataRecords, clock, lastRoute
\* SolarLaunchApp's fields, the clock behind Date.now(), the fetches in flight
\* and how many were made, and for every cache key when its entry was stored and
\* the last time the cache answered
VARIABLES currentLocation, solarData, lastRequestTime, requestCache,
          dateNow, inFlight, requested, storedAt, lastServed

calculatorVars == <<nasaData, metrics, parameters, results>>

helperVars == <<lossArguments, losses, latitude, tilt>>

proxyVars == <<query, handler, upstreamRequests, responses>>

storageVars == <<solarProjects, solarDataRecords, clock, lastRoute>>

legacyVars == <<currentLocation, solarData, lastRequestTime, requestCache,
                dateNow, inFlight, requested, storedAt, lastServed>>

vars == <<calculatorVars, helperVars, proxyVars, storageVars, legacyVars>>

(***************************************************************************)
(* Bounds of the model.                                                    *)
(***************************************************************************)
\* number of distinct date keys a series may hold
MaxDates == 2
\* Math.sqrt is rounded down to a multiple of 1/SqrtScale
SqrtScale == 1000

(***************************************************************************)
(* Numbers.                                                                *)
(***************************************************************************)
Abs(x) == IF x < 0 THEN -x ELSE x

Sign(x) == IF x < 0 THEN -1 ELSE IF x > 0 THEN 1 ELSE 0

RECURSIVE Gcd(_, _)
Gcd(a, b) == IF b = 0 THEN a ELSE Gcd(b, a % b)

\* the number n/d (d > 0) in lowest terms
Rat(n, d) == LET g == Gcd(Abs(n), d) IN <<n \div g, d \div g>>

Num(k) == <<k, 1>>

NaN == <<0, 0>>
Infinity == <<1, 0>>
NegInfinity == <<-1, 0>>

IsNaN(a) == a = NaN
IsFinite(a) == a[2] # 0

\* a + b
Add(a, b) ==
  IF IsFinite(a) /\ IsFinite(b) THEN Rat(a[1] * b[2] + b[1] * a[2], a[2] * b[2])
  ELSE IF IsNaN(a) \/ IsNaN(b) THEN NaN
  ELSE IF IsFinite(a) THEN b
  ELSE IF IsFinite(b) THEN a
  ELSE IF a = b THEN a ELSE NaN

\* -a
Neg(a) == <<-a[1], a[2]>>

\* a - b
Sub(a, b) == Add(a, Neg(b))

\* a * b
Mul(a, b) ==
  IF IsFinite(a) /\ IsFinite(b) THEN Rat(a[1] * b[1], a[2] * b[2])
  ELSE IF IsNaN(a) \/ IsNaN(b) \/ a[1] = 0 \/ b[1] = 0 THEN NaN
  ELSE <<Sign(a[1]) * Sign(b[1]), 0>>

\* a / b with a guard that turns a zero divisor into a result of 0
DivGuarded(a, b) ==
  IF IsFinite(a) /\ IsFinite(b) /\ b[1] # 0
    THEN Rat(Sign(b[1]) * a[1] * b[2], Abs(b[1]) * a[2])
  ELSE Num(0)

\* a / b
Div(a, b) ==
  IF IsFinite(a) /\ IsFinite(b) /\ b[1] # 0
    THEN Rat(Sign(b[1]) * a[1] * b[2], Abs(b[1]) * a[2])
  ELSE IF IsNaN(a) \/ IsNaN(b) THEN NaN
  ELSE IF IsFinite(a) /\ IsFinite(b) THEN <<Sign(a[1]), 0>>
  ELSE IF IsFinite(a) THEN Num(0)
  ELSE IF IsFinite(b) THEN <<a[1] * (IF b[1] < 0 THEN -1 ELSE 1), 0>>
  ELSE NaN

\* a < b, a > b, a >= b: every comparison with NaN is false
Lt(a, b) ==
  /\ ~IsNaN(a) /\ ~IsNaN(b)
  /\ IF IsFinite(a) /\ IsFinite(b) THEN a[1] * b[2] < b[1] * a[2]
     ELSE IF IsFinite(a) THEN b = Infinity
     ELSE IF IsFinite(b) THEN a = NegInfinity
     ELSE a = NegInfinity /\ b = Infinity

Gt(a, b) == Lt(b, a)

Ge(a, b) == ~IsNaN(a) /\ ~IsNaN(b) /\ ~Lt(a, b)

Le(a, b) == Ge(b, a)

\* Math.max(a, b) and Math.min(a, b): NaN if either argument is NaN
MathMax2(a, b) == IF IsNaN(a) \/ IsNaN(b) THEN NaN ELSE IF Lt(a, b) THEN b ELSE a

MathMin2(a, b) == IF IsNaN(a) \/ IsNaN(b) THEN NaN ELSE IF Lt(b, a) THEN b ELSE a

\* Math.min(...values) in the place of Math.max(...values)
RECURSIVE MathMin(_)
MathMin(values) ==
  IF values = <<>> THEN Infinity
  ELSE MathMin2(MathMin(SubSeq(values, 1, Len(values) - 1)), values[Len(values)])

\* Math.max(...values): -Infinity for no arguments
RECURSIVE MathMax(_)
MathMax(values) ==
  IF values = <<>> THEN NegInfinity
  ELSE MathMax2(MathMax(SubSeq(values, 1, Len(values) - 1)), values[Len(values)])

\* Math.pow(a, 2)
Pow2(a) == Mul(a, a)

\* the largest k in lo..hi with k * k <= x  (lo * lo <= x < (hi + 1) * (hi + 1))
RECURSIVE ISqrtIn(_, _, _)
ISqrtIn(x, lo, hi) ==
  IF lo = hi THEN lo
  ELSE LET mid == (lo + hi + 1) \div 2
       IN IF mid * mid <= x THEN ISqrtIn(x, mid, hi) ELSE ISqrtIn(x, lo, mid - 1)

\* Math.sqrt(a): NaN for a negative argument or NaN
MathSqrt(a) ==
  IF IsNaN(a) \/ a[1] < 0 THEN NaN
  ELSE IF ~IsFinite(a) THEN Infinity
  ELSE Rat(ISqrtIn((a[1] * SqrtScale * SqrtScale) \div a[2], 0, 40000), SqrtScale)

(***************************************************************************)
(* Inputs.                                                                 *)
(***************************************************************************)
\* the date keys of the daily series
Dates == 1..MaxDates

\* daily irradiance readings, kWh/m2/day
IrradianceReadings == {Rat(9, 2), Rat(13, 2), Rat(17, 2)}

\* daily temperature readings, degrees Celsius
TemperatureReadings == {Num(-45), Num(5), Num(45)}

\* Record<string, number>: a reading for some of the dates (possibly none)
SeriesOf(readings) == UNION {[keys -> readings] : keys \in SUBSET Dates}

\* NASAPowerResponse.properties.parameter, the two series the calculator reads
NASAPowerResponses ==
  [ALLSKY_SFC_SW_DWN : SeriesOf(IrradianceReadings), T2M : SeriesOf(TemperatureReadings)]

\* a query or argument that holds no value yet
Null == <<>>

\* MissionParameters: the dashboard's initial state and edits of it
DefaultParameters ==
  [panelArea |-> Num(100), systemEfficiency |-> Rat(22, 100), missionDuration |-> Num(14)]

MissionParameterInputs ==
  { DefaultParameters,
    [DefaultParameters EXCEPT !.systemEfficiency = Rat(15, 100)],
    [DefaultParameters EXCEPT !.systemEfficiency = Rat(20, 100)],
    [DefaultParameters EXCEPT !.panelArea = Num(10)],
    [DefaultParameters EXCEPT !.panelArea = Num(250)],
    [DefaultParameters EXCEPT !.missionDuration = Num(5)],
    [panelArea |-> Num(100), systemEfficiency |-> Rat(22, 100),
     missionDuration |-> Num(14), batteryCapacity |-> Num(500)],
    [panelArea |-> Num(100), systemEfficiency |-> Rat(22, 100),
     missionDuration |-> Num(5), batteryCapacity |-> Num(3000)],
    [panelArea |-> Num(100), systemEfficiency |-> Rat(20, 100), missionDuration |-> Num(10)],
    [panelArea |-> Num(400), systemEfficiency |-> Rat(15, 100), missionDuration |-> Num(5)] }

\* SolarMetrics a caller passes to calculateMissionEnergy directly
SolarMetricsOf(irr, eff, temp, peak) ==
  [dailyIrradiance |-> irr, efficiency |-> eff, temperature |-> temp,
   peakOutput |-> peak, averageOutput |-> irr, variance |-> Num(0)]

SolarMetricsInputs ==
  { SolarMetricsOf(Num(6), Num(90), Num(50), Num(7)),
    SolarMetricsOf(Num(6), Num(100), Num(25), Num(7)),
    SolarMetricsOf(Num(3), Num(94), Num(40), Num(4)),
    SolarMetricsOf(Rat(13, 2), Num(100), Num(35), Num(8)),
    SolarMetricsOf(Rat(9, 2), Num(100), Num(-20), Num(5)),
    SolarMetricsOf(Num(7), Num(10), Num(-21), Num(9)),
    SolarMetricsOf(Num(0), Num(100), Num(20), Num(0)),
    SolarMetricsOf(Num(5), Num(100), Num(20), Num(6)),
    SolarMetricsOf(Rat(48, 7), Num(100), Num(20), Num(8)) }

(***************************************************************************)
(* SolarCalculator.                                                        *)
(***************************************************************************)
\* Object.values(record): the values in ascending order of the date keys
RECURSIVE ObjectValues(_)
ObjectValues(record) ==
  IF DOMAIN record = {} THEN <<>>
  ELSE LET k == CHOOSE d \in DOMAIN record : \A e \in DOMAIN record : d <= e
       IN <<record[k]>> \o ObjectValues([d \in DOMAIN record \ {k} |-> record[d]])

\* values.reduce((sum, val) => sum + val, 0)
RECURSIVE ReduceSum(_)
ReduceSum(values) ==
  IF values = <<>> THEN Num(0)
  ELSE Add(ReduceSum(SubSeq(values, 1, Len(values) - 1)), values[Len(values)])

\* calculateVariance with the sample divisor length - 1
calculateSampleVariance(values) ==
  LET mean == Div(ReduceSum(values), Num(Len(values)))
      squaredDiffs == [i \in 1..Len(values) |-> Pow2(Sub(values[i], mean))]
  IN MathSqrt(Div(ReduceSum(squaredDiffs), Num(Len(values) - 1)))

\* calculateVariance(values)
calculateVariance(values) ==
  LET mean == Div(ReduceSum(values), Num(Len(values)))
      squaredDiffs == [i \in 1..Len(values) |-> Pow2(Sub(values[i], mean))]
  IN MathSqrt(Div(ReduceSum(squaredDiffs), Num(Len(values))))

tempCoefficient == Rat(-4, 1000)

referenceTemp == Num(25)

\* tempLoss without the clamp at 0
tempLossUnclamped(temperature) == Mul(Sub(temperature, referenceTemp), tempCoefficient)

\* tempLoss of calculateMetrics
tempLossOf(temperature) ==
  MathMax2(Num(0), Mul(Sub(temperature, referenceTemp), tempCoefficient))

\* efficiency of calculateMetrics, before it is scaled to a percentage
efficiencyOf(temperature) == MathMax2(Rat(1, 10), Add(Num(1), tempLossOf(temperature)))

\* calculateMetrics averaging the temperatures over the irradiance series' length
calculateMetricsOneLength(data) ==
  LET irradianceValues == ObjectValues(data.ALLSKY_SFC_SW_DWN)
      temperatureValues == ObjectValues(data.T2M)
      dailyIrradiance == Div(ReduceSum(irradianceValues), Num(Len(irradianceValues)))
      temperature == Div(ReduceSum(temperatureValues), Num(Len(irradianceValues)))
  IN [dailyIrradiance |-> dailyIrradiance,
      efficiency |-> Mul(MathMax2(Rat(1, 10), Add(Num(1), MathMax2(Num(0),
                       Mul(Sub(temperature, Num(25)), Rat(-4, 1000))))), Num(100)),
      temperature |-> temperature,
      peakOutput |-> MathMax(irradianceValues),
      averageOutput |-> dailyIrradiance,
      variance |-> MathSqrt(Div(ReduceSum([i \in 1..Len(irradianceValues) |->
                     Pow2(Sub(irradianceValues[i], dailyIrradiance))]),
                     Num(Len(irradianceValues))))]

\* calculateMetrics(nasaData)
calculateMetrics(data) ==
  LET irradianceValues == ObjectValues(data.ALLSKY_SFC_SW_DWN)
      temperatureValues == ObjectValues(data.T2M)
      dailyIrradiance == Div(ReduceSum(irradianceValues), Num(Len(irradianceValues)))
      temperature == Div(ReduceSum(temperatureValues), Num(Len(temperatureValues)))
      efficiency == efficiencyOf(temperature)
  IN [dailyIrradiance |-> dailyIrradiance,
      efficiency |-> Mul(efficiency, Num(100)),
      temperature |-> temperature,
      peakOutput |-> MathMax(irradianceValues),
      averageOutput |-> dailyIrradiance,
      variance |-> calculateVariance(irradianceValues)]

\* the irradiance-based recommendation with >= in the place of >
irradianceRecommendationInclusive(m) ==
  IF Ge(m.dailyIrradiance, Rat(65, 10))
    THEN <<"Excellent solar resource - ideal for space missions">>
  ELSE IF Ge(m.dailyIrradiance, Rat(45, 10))
    THEN <<"Good solar resource - suitable for most applications">>
  ELSE <<"Consider high-efficiency panels or backup power systems">>

\* generateRecommendations: irradiance-based recommendations
irradianceRecommendation(m) ==
  IF Gt(m.dailyIrradiance, Rat(65, 10))
    THEN <<"Excellent solar resource - ideal for space missions">>
  ELSE IF Gt(m.dailyIrradiance, Rat(45, 10))
    THEN <<"Good solar resource - suitable for most applications">>
  ELSE <<"Consider high-efficiency panels or backup power systems">>

\* the temperature-based recommendation with >= 35 and <= -20
temperatureRecommendationInclusive(m) ==
  IF Ge(m.temperature, Num(35))
    THEN <<"High temperatures detected - implement cooling systems">>
  ELSE IF Le(m.temperature, Num(-20))
    THEN <<"Extreme cold conditions - use cold-weather rated equipment">>
  ELSE <<>>

\* generateRecommendations: temperature-based recommendations
temperatureRecommendation(m) ==
  IF Gt(m.temperature, Num(35))
    THEN <<"High temperatures detected - implement cooling systems">>
  ELSE IF Lt(m.temperature, Num(-20))
    THEN <<"Extreme cold conditions - use cold-weather rated equipment">>
  ELSE <<>>

\* the battery recommendation with >= 2000
batteryRecommendationInclusive(batteryRequired) ==
  IF Ge(batteryRequired, Num(2000))
    THEN <<"Large battery system required - consider modular design">>
  ELSE <<>>

\* generateRecommendations: battery recommendations
batteryRecommendation(batteryRequired) ==
  IF Gt(batteryRequired, Num(2000))
    THEN <<"Large battery system required - consider modular design">>
  ELSE <<>>

\* the mission viability recommendation as the negation of totalEnergy >= 1000
viabilityRecommendationNegated(totalEnergy) ==
  IF ~Ge(totalEnergy, Num(1000))
    THEN <<"Energy output below mission requirements - increase panel area">>
  ELSE <<>>

\* generateRecommendations: mission viability
viabilityRecommendation(totalEnergy) ==
  IF Lt(totalEnergy, Num(1000))
    THEN <<"Energy output below mission requirements - increase panel area">>
  ELSE <<>>

\* generateRecommendations: efficiency recommendations
efficiencyRecommendation(p) ==
  IF Lt(p.systemEfficiency, Rat(20, 100))
    THEN <<"Consider upgrading to higher efficiency panels (>20%)">>
  ELSE <<>>

\* generateRecommendations pushing the efficiency recommendation before the
\* mission viability one
generateRecommendationsReordered(m, p, totalEnergy, batteryRequired) ==
     irradianceRecommendation(m)
  \o temperatureRecommendation(m)
  \o batteryRecommendation(batteryRequired)
  \o efficiencyRecommendation(p)
  \o viabilityRecommendation(totalEnergy)

\* generateRecommendations(metrics, parameters, totalEnergy, batteryRequired)
generateRecommendations(m, p, totalEnergy, batteryRequired) ==
     irradianceRecommendation(m)
  \o temperatureRecommendation(m)
  \o batteryRecommendation(batteryRequired)
  \o viabilityRecommendation(totalEnergy)
  \o efficiencyRecommendation(p)

\* dailyEnergyOutput without the temperature-derated efficiency factor
dailyEnergyOutputUnderated(m, p) ==
  Mul(Mul(m.dailyIrradiance, p.panelArea), p.systemEfficiency)

\* dailyEnergyOutput of calculateMissionEnergy
dailyEnergyOutputOf(m, p) ==
  Mul(Mul(Mul(m.dailyIrradiance, p.panelArea), p.systemEfficiency),
      Div(m.efficiency, Num(100)))

\* totalEnergyOutput of a single day
totalEnergyOutputOneDay(dailyEnergyOutput, missionDuration) == dailyEnergyOutput

\* totalEnergyOutput of calculateMissionEnergy
totalEnergyOutputOf(dailyEnergyOutput, missionDuration) ==
  Mul(dailyEnergyOutput, missionDuration)

lunarNightHours == Num(350)

\* batteryRequired of calculateMissionEnergy
batteryRequiredOf(dailyEnergyOutput) ==
  LET dailyPowerConsumption == Div(dailyEnergyOutput, Num(24))
  IN Mul(dailyPowerConsumption, lunarNightHours)

minRequiredEnergy == Num(1000)

\* missionViability with > in the place of >=
missionViabilityStrict(totalEnergyOutput) == Gt(totalEnergyOutput, minRequiredEnergy)

\* missionViability of calculateMissionEnergy
missionViabilityOf(totalEnergyOutput) == Ge(totalEnergyOutput, minRequiredEnergy)

\* the result's peakOutput with the temperature-derated efficiency applied
peakOutputDerated(m, p) ==
  Mul(Mul(Mul(m.peakOutput, p.panelArea), p.systemEfficiency), Div(m.efficiency, Num(100)))

\* the result's peakOutput of calculateMissionEnergy
peakOutputOf(m, p) == Mul(Mul(m.peakOutput, p.panelArea), p.systemEfficiency)

\* calculateMissionEnergy sizing the battery from the whole mission's energy
calculateMissionEnergyBatteryOfTotal(m, p) ==
  LET dailyEnergyOutput == dailyEnergyOutputOf(m, p)
      totalEnergyOutput == totalEnergyOutputOf(dailyEnergyOutput, p.missionDuration)
      batteryRequired == batteryRequiredOf(totalEnergyOutput)
      missionViability == Ge(totalEnergyOutput, minRequiredEnergy)
      recommendations == generateRecommendations(m, p, totalEnergyOutput, batteryRequired)
  IN [totalEnergyOutput |-> totalEnergyOutput,
      dailyAverage |-> dailyEnergyOutput,
      peakOutput |-> Mul(Mul(m.peakOutput, p.panelArea), p.systemEfficiency),
      efficiency |-> m.efficiency,
      batteryRequired |-> batteryRequired,
      missionViability |-> missionViability,
      recommendations |-> recommendations]

\* calculateMissionEnergy(metrics, parameters)
calculateMissionEnergy(m, p) ==
  LET dailyEnergyOutput == dailyEnergyOutputOf(m, p)
      totalEnergyOutput == totalEnergyOutputOf(dailyEnergyOutput, p.missionDuration)
      batteryRequired == batteryRequiredOf(dailyEnergyOutput)
      missionViability == missionViabilityOf(totalEnergyOutput)
      recommendations == generateRecommendations(m, p, totalEnergyOutput, batteryRequired)
  IN [totalEnergyOutput |-> totalEnergyOutput,
      dailyAverage |-> dailyEnergyOutput,
      peakOutput |-> peakOutputOf(m, p),
      efficiency |-> m.efficiency,
      batteryRequired |-> batteryRequired,
      missionViability |-> missionViability,
      recommendations |-> recommendations]

\* Math.abs(a)
MathAbs(a) == <<Abs(a[1]), a[2]>>

\* calculateOptimalTilt returning the latitude as it is
calculateOptimalTiltSigned(lat) == lat

\* calculateOptimalTilt(latitude)
calculateOptimalTilt(lat) == MathAbs(lat)

\* the truthiness of a number: neither 0 nor NaN
Truthy(a) == ~IsNaN(a) /\ a # Num(0)

\* the humidity parameter was passed (an omitted parameter is undefined, which
\* is falsy)
HumidityProvided(args) == "humidity" \in DOMAIN args

\* losses of calculateSystemLosses testing humidity >= 80
lossesBeforeCapInclusive(args) ==
  LET base == Rat(14, 100)
      afterTemperature ==
        IF Gt(args.temperature, Num(35)) THEN Add(base, Rat(2, 100))
        ELSE IF Lt(args.temperature, Num(-10)) THEN Add(base, Rat(1, 100))
        ELSE base
  IN IF HumidityProvided(args) /\ Truthy(args.humidity) /\ Ge(args.humidity, Num(80))
       THEN Add(afterTemperature, Rat(1, 100))
     ELSE afterTemperature

\* losses of calculateSystemLosses, as it stands before the return statement
lossesBeforeCap(args) ==
  LET base == Rat(14, 100)
      afterTemperature ==
        IF Gt(args.temperature, Num(35)) THEN Add(base, Rat(2, 100))
        ELSE IF Lt(args.temperature, Num(-10)) THEN Add(base, Rat(1, 100))
        ELSE base
  IN IF HumidityProvided(args) /\ Truthy(args.humidity) /\ Gt(args.humidity, Num(80))
       THEN Add(afterTemperature, Rat(1, 100))
     ELSE afterTemperature

\* calculateSystemLosses with the cap at 15%
calculateSystemLossesCapAt15(args) == MathMin2(lossesBeforeCap(args), Rat(15, 100))

\* calculateSystemLosses(temperature, humidity?)
calculateSystemLosses(args) == MathMin2(lossesBeforeCap(args), Rat(3, 10))

(***************************************************************************)
(* The state of each part while another part is the one that runs.         *)
(***************************************************************************)
\* a Map or a plain object with no entries
EmptyMap == [k \in {} |-> Null]

\* the dashboard before any data has arrived
CalculatorIdle ==
  nasaData = Null /\ metrics = Null /\ parameters = DefaultParameters /\ results = Null

\* no call of calculateSystemLosses or calculateOptimalTilt is made
HelpersIdle == lossArguments = Null /\ losses = Null /\ latitude = Null /\ tilt = Null

\* no request has reached GET /api/nasa-power
ProxyIdle ==
  query = Null /\ handler = "idle" /\ upstreamRequests = <<>> /\ responses = <<>>

\* the Kennedy Space Center example the constructor stores; of the columns a
\* client may set, name stands for the required and description for the optional
\* ones
kscProject ==
  [id |-> "ksc-001", name |-> "Kennedy Space Center Analysis",
   description |-> "NASA launch facility solar energy analysis",
   createdAt |-> 0, updatedAt |-> 0]

\* new MemStorage()
StorageConstructed ==
  /\ solarProjects = [id \in {"ksc-001"} |-> kscProject]
  /\ solarDataRecords = EmptyMap
  /\ clock = 0
  /\ lastRoute = Null

\* Date.now() when the page is loaded, in minutes since the epoch
PageLoadTime == 29000000

\* new SolarLaunchApp() on a page without lat and lon in its address
LegacyConstructed ==
  /\ currentLocation = Null
  /\ solarData = Null
  /\ lastRequestTime = 0
  /\ requestCache = EmptyMap
  /\ dateNow = PageLoadTime
  /\ inFlight = {}
  /\ requested = 0
  /\ storedAt = EmptyMap
  /\ lastServed = Null

(***************************************************************************)
(* The dashboard's queries: useSolarMetrics runs calculateMetrics once the *)
(* satellite data is there, useMissionCalculations runs                    *)
(* calculateMissionEnergy once the metrics are there.  A caller may also   *)
(* hand calculateMissionEnergy metrics of its own.                         *)
(***************************************************************************)
Init ==
  /\ parameters \in MissionParameterInputs
  /\ results = Null
  /\ \/ nasaData \in NASAPowerResponses /\ metrics = Null
     \/ nasaData = Null /\ metrics \in SolarMetricsInputs
  /\ HelpersIdle /\ ProxyIdle /\ StorageConstructed /\ LegacyConstructed

\* useSolarMetrics: queryFn, enabled once nasaData is there
CalculateMetrics ==
  /\ nasaData # Null
  /\ metrics = Null
  /\ metrics' = calculateMetrics(nasaData)
  /\ UNCHANGED <<nasaData, parameters, results>>
  /\ UNCHANGED <<helperVars, proxyVars, storageVars, legacyVars>>

\* useMissionCalculations over a calculateMissionEnergy that rescales
\* metrics.efficiency to a fraction in place
CalculateMissionEnergyInPlace ==
  /\ metrics # Null
  /\ results = Null
  /\ results' = calculateMissionEnergy(metrics, parameters)
  /\ metrics' = [metrics EXCEPT !.efficiency = Div(@, Num(100))]
  /\ UNCHANGED <<nasaData, parameters>>
  /\ UNCHANGED <<helperVars, proxyVars, storageVars, legacyVars>>

\* useMissionCalculations: queryFn, enabled once metrics is there
CalculateMissionEnergy ==
  /\ metrics # Null
  /\ results = Null
  /\ results' = calculateMissionEnergy(metrics, parameters)
  /\ UNCHANGED <<nasaData, metrics, parameters>>
  /\ UNCHANGED <<helperVars, proxyVars, storageVars, legacyVars>>

Next == CalculateMetrics \/ CalculateMissionEnergy

Spec == Init /\ [][Next]_vars

(***************************************************************************)
(* What the properties below read off a state.                             *)
(***************************************************************************)
\* metrics holds the result of calculateMetrics(nasaData)
MetricsCalculated == nasaData # Null /\ metrics # Null

\* results holds the result of calculateMissionEnergy(metrics, parameters)
ResultsCalculated == metrics # Null /\ results # Null

IrradianceData == nasaData.ALLSKY_SFC_SW_DWN

TemperatureData == nasaData.T2M

NonEmptySeries == DOMAIN IrradianceData # {} /\ DOMAIN TemperatureData # {}

\* the sum of k * reading over the series, for readings that are multiples of 1/k
RECURSIVE ScaledTotal(_, _)
ScaledTotal(series, k) ==
  IF DOMAIN series = {} THEN 0
  ELSE LET d == CHOOSE e \in DOMAIN series : TRUE
       IN (series[d][1] * k) \div series[d][2]
            + ScaledTotal([e \in DOMAIN series \ {d} |-> series[e]], k)

\* the temperature readings are whole degrees, the irradiance readings halves
TemperatureTotal == ScaledTotal(TemperatureData, 1)

TemperatureCount == Cardinality(DOMAIN TemperatureData)

IrradianceTotal2 == ScaledTotal(IrradianceData, 2)

IrradianceCount == Cardinality(DOMAIN IrradianceData)

MeanTemperatureAbove25 == TemperatureTotal > 25 * TemperatureCount

(***************************************************************************)
(* calculateMetrics: efficiency.                                           *)
(***************************************************************************)
\* C1: for non-empty irradiance and temperature series the efficiency that
\* calculateMetrics returns lies in [10, 100], whatever the mean temperature.
C1_EfficiencyWithin10And100 ==
  (MetricsCalculated /\ NonEmptySeries) =>
    (Ge(metrics.efficiency, Num(10)) /\ Le(metrics.efficiency, Num(100)))

\* C2: a mean temperature strictly above 25 gives an efficiency strictly below 100.
C2_HotReducesEfficiency ==
  (MetricsCalculated /\ NonEmptySeries /\ MeanTemperatureAbove25) =>
    Lt(metrics.efficiency, Num(100))

\* C3: a mean temperature at or below 25 gives an efficiency of exactly 100.
C3_ColdLeavesEfficiencyAt100 ==
  (MetricsCalculated /\ NonEmptySeries /\ ~MeanTemperatureAbove25) =>
    metrics.efficiency = Num(100)

\* the reference formula in integers: 10 * count * efficiency, for a mean
\* temperature of total / count
ReferenceEfficiencyScaled(total, count) ==
  LET tempLoss4 == IF 4 * (25 * count - total) > 0 THEN 4 * (25 * count - total) ELSE 0
      raw == 1000 * count + tempLoss4
  IN IF raw > 100 * count THEN raw ELSE 100 * count

AllIrradianceReadingsIdentical ==
  \A d, e \in DOMAIN IrradianceData : IrradianceData[d] = IrradianceData[e]

C7_MeansOverOwnSeries ==
  MetricsCalculated =>
    /\ IrradianceCount > 0 =>
         metrics.dailyIrradiance = Rat(IrradianceTotal2, 2 * IrradianceCount)
    /\ TemperatureCount > 0 =>
         metrics.temperature = Rat(TemperatureTotal, TemperatureCount)
    /\ metrics.averageOutput = metrics.dailyIrradiance

\* C7 witness: a result for two series with different key sets and lengths.
C7_Witness ==
  /\ MetricsCalculated /\ NonEmptySeries
  /\ DOMAIN IrradianceData # DOMAIN TemperatureData
  /\ IrradianceCount # TemperatureCount
  /\ metrics.temperature = Rat(TemperatureTotal, TemperatureCount)

(***************************************************************************)
(* calculateMissionEnergy: energy and battery.                             *)
(***************************************************************************)
AllFinite(numbers) == \A x \in numbers : IsFinite(x)

\* the arguments of the worked example: dailyIrradiance 6.0, efficiency 90,
\* panelArea 100, systemEfficiency 0.22
WorkedExampleCall ==
  /\ ResultsCalculated
  /\ metrics.dailyIrradiance = Num(6) /\ metrics.efficiency = Num(90)
  /\ parameters.panelArea = Num(100) /\ parameters.systemEfficiency = Rat(22, 100)

\* C8: dailyAverage = dailyIrradiance * panelArea * systemEfficiency * (efficiency / 100);
\* dailyIrradiance 6.0, efficiency 90, panelArea 100, systemEfficiency 0.22 give 118.8.
C8_DailyAverageFormula ==
  ResultsCalculated =>
    /\ AllFinite({metrics.dailyIrradiance, metrics.efficiency}) =>
         results.dailyAverage =
           Rat(metrics.dailyIrradiance[1] * parameters.panelArea[1]
                 * parameters.systemEfficiency[1] * metrics.efficiency[1],
               metrics.dailyIrradiance[2] * parameters.panelArea[2]
                 * parameters.systemEfficiency[2] * metrics.efficiency[2] * 100)
    /\ ~AllFinite({metrics.dailyIrradiance, metrics.efficiency}) =>
         IsNaN(results.dailyAverage)
    /\ WorkedExampleCall => results.dailyAverage = Rat(1188, 10)

\* C8 witness: the worked example's call has returned.
C8_Witness == WorkedExampleCall /\ results.dailyAverage = Rat(1188, 10)

\* C9: totalEnergyOutput = dailyAverage * missionDuration.
C9_TotalIsDailyTimesDuration ==
  ResultsCalculated =>
    IF IsFinite(results.dailyAverage)
      THEN results.totalEnergyOutput =
             Rat(results.dailyAverage[1] * parameters.missionDuration[1],
                 results.dailyAverage[2] * parameters.missionDuration[2])
      ELSE IsNaN(results.totalEnergyOutput)

\* C9 witness: a result over a mission of 5 days with a positive daily average.
C9_Witness ==
  /\ ResultsCalculated /\ parameters.missionDuration = Num(5)
  /\ Gt(results.dailyAverage, Num(0))
  /\ Gt(results.totalEnergyOutput, results.dailyAverage)

\* parameters that differ from the call's at most in missionDuration and batteryCapacity
SameCollector(p) ==
  /\ p.panelArea = parameters.panelArea
  /\ p.systemEfficiency = parameters.systemEfficiency

\* C10: batteryRequired = (dailyAverage / 24) * 350, whatever missionDuration is and
\* whether or not batteryCapacity is given.
C10_BatteryFromDailyAverageOnly ==
  ResultsCalculated =>
    /\ IF IsFinite(results.dailyAverage)
         THEN results.batteryRequired =
                Rat(results.dailyAverage[1] * 350, results.dailyAverage[2] * 24)
         ELSE IsNaN(results.batteryRequired)
    /\ \A p \in MissionParameterInputs :
         SameCollector(p) =>
           calculateMissionEnergy(metrics, p).batteryRequired = results.batteryRequired

\* C10 witness: a result for parameters that carry a batteryCapacity and a
\* missionDuration other than the default, with a positive battery requirement.
C10_Witness ==
  /\ ResultsCalculated
  /\ "batteryCapacity" \in DOMAIN parameters
  /\ parameters.missionDuration = Num(5)
  /\ Gt(results.batteryRequired, Num(0))

(***************************************************************************)
(* calculateMissionEnergy: viability, peak output and recommendations.     *)
(***************************************************************************)
\* x > k and x < k for an integer k, by cross-multiplication
Above(x, k) == x = Infinity \/ (IsFinite(x) /\ x[1] > k * x[2])

Below(x, k) == x = NegInfinity \/ (IsFinite(x) /\ x[1] < k * x[2])

\* C11: missionViability is true if and only if totalEnergyOutput >= 1000; a
\* total of exactly 1000 is viable.
C11_ViableIffTotalAtLeast1000 ==
  ResultsCalculated =>
    /\ results.missionViability \in BOOLEAN
    /\ results.missionViability <=>
         (~IsNaN(results.totalEnergyOutput) /\ ~Below(results.totalEnergyOutput, 1000))
    /\ results.totalEnergyOutput = Num(1000) => results.missionViability

\* C11 witness: a result whose total is exactly 1000, which is viable.
C11_Witness ==
  ResultsCalculated /\ results.totalEnergyOutput = Num(1000) /\ results.missionViability

\* efficiencies a second call may carry in the place of metrics.efficiency
OtherEfficiencies == {Num(10), Num(50), Num(90), Num(100), Num(128)}

\* C12: the result's peakOutput is metrics.peakOutput * panelArea * systemEfficiency
\* and is the same for calls that differ only in metrics.efficiency; the result's
\* efficiency is metrics.efficiency, copied.
C12_PeakOutputIgnoresEfficiency ==
  ResultsCalculated =>
    /\ IF IsFinite(metrics.peakOutput)
         THEN results.peakOutput =
                Rat(metrics.peakOutput[1] * parameters.panelArea[1]
                      * parameters.systemEfficiency[1],
                    metrics.peakOutput[2] * parameters.panelArea[2]
                      * parameters.systemEfficiency[2])
         ELSE results.peakOutput = metrics.peakOutput
    /\ results.efficiency = metrics.efficiency
    /\ \A e \in OtherEfficiencies :
         calculateMissionEnergy([metrics EXCEPT !.efficiency = e], parameters).peakOutput
           = results.peakOutput

\* C12 witness: the result for an efficiency of 90, a peak of 7, 100 m2 and 0.22:
\* peakOutput is 154, not derated to 138.6.
C12_Witness ==
  /\ ResultsCalculated
  /\ metrics.efficiency = Num(90) /\ metrics.peakOutput = Num(7)
  /\ results.peakOutput = Num(154) /\ results.efficiency = Num(90)

ExcellentResource == "Excellent solar resource - ideal for space missions"
GoodResource == "Good solar resource - suitable for most applications"
ConsiderHighEfficiency == "Consider high-efficiency panels or backup power systems"
CoolingSystems == "High temperatures detected - implement cooling systems"
ColdWeatherEquipment == "Extreme cold conditions - use cold-weather rated equipment"
ModularBattery == "Large battery system required - consider modular design"
IncreasePanelArea == "Energy output below mission requirements - increase panel area"
PanelUpgrade == "Consider upgrading to higher efficiency panels (>20%)"

TierMessages == {ExcellentResource, GoodResource, ConsiderHighEfficiency}

TemperatureMessages == {CoolingSystems, ColdWeatherEquipment}

\* the message is in the result's recommendations
Recommends(message) ==
  \E i \in DOMAIN results.recommendations : results.recommendations[i] = message

\* how many entries of the result's recommendations are among the messages
CountOf(messages) ==
  Cardinality({i \in DOMAIN results.recommendations : results.recommendations[i] \in messages})

\* C13: the first recommendation is the one resource-tier message: excellent for
\* dailyIrradiance > 6.5, else good for > 4.5, else consider-high-efficiency;
\* exactly 6.5 is good, exactly 4.5 the lowest tier; no result has two tier messages.
C13_FirstIsTierByStrictComparison ==
  ResultsCalculated =>
    /\ Len(results.recommendations) >= 1
    /\ results.recommendations[1] =
         (IF IsFinite(metrics.dailyIrradiance)
               /\ 2 * metrics.dailyIrradiance[1] > 13 * metrics.dailyIrradiance[2]
            THEN ExcellentResource
          ELSE IF IsFinite(metrics.dailyIrradiance)
               /\ 2 * metrics.dailyIrradiance[1] > 9 * metrics.dailyIrradiance[2]
            THEN GoodResource
          ELSE ConsiderHighEfficiency)
    /\ metrics.dailyIrradiance = Rat(13, 2) => results.recommendations[1] = GoodResource
    /\ metrics.dailyIrradiance = Rat(9, 2) =>
         results.recommendations[1] = ConsiderHighEfficiency
    /\ CountOf(TierMessages) = 1

\* C13 witness: a result for a dailyIrradiance of exactly 6.5, in the good tier.
C13_Witness ==
  /\ ResultsCalculated /\ metrics.dailyIrradiance = Rat(13, 2)
  /\ results.recommendations[1] = GoodResource

\* C14: at most one temperature advisory: cooling iff temperature > 35, cold-weather
\* iff temperature < -20, neither for -20 <= temperature <= 35.
C14_TemperatureAdvisory ==
  ResultsCalculated =>
    /\ CountOf(TemperatureMessages) <= 1
    /\ Recommends(CoolingSystems) <=> Above(metrics.temperature, 35)
    /\ Recommends(ColdWeatherEquipment) <=> Below(metrics.temperature, -20)
    /\ metrics.temperature \in {Num(-20), Num(35)} => CountOf(TemperatureMessages) = 0

\* C14 witness: a result for a temperature of exactly 35, with no temperature advisory.
C14_Witness ==
  /\ ResultsCalculated /\ metrics.temperature = Num(35)
  /\ CountOf(TemperatureMessages) = 0

\* the place of a message in the fixed order
PlaceOf(message) ==
  IF message \in TierMessages THEN 1
  ELSE IF message \in TemperatureMessages THEN 2
  ELSE IF message = ModularBattery THEN 3
  ELSE IF message = IncreasePanelArea THEN 4
  ELSE IF message = PanelUpgrade THEN 5
  ELSE 0

\* C15: the recommendations are a subsequence of [resource-tier, temperature,
\* battery, panel-area, efficiency-upgrade]: in that order, each at most once,
\* between 1 and 5 entries.
C15_RecommendationsInFixedOrder ==
  ResultsCalculated =>
    /\ Len(results.recommendations) \in 1..5
    /\ \A i \in DOMAIN results.recommendations : PlaceOf(results.recommendations[i]) # 0
    /\ \A i, j \in DOMAIN results.recommendations :
         i < j => PlaceOf(results.recommendations[i]) < PlaceOf(results.recommendations[j])

\* C15 witness: a result in which all five advisories fire.
C15_Witness ==
  /\ ResultsCalculated
  /\ Len(results.recommendations) = 5
  /\ results.recommendations[4] = IncreasePanelArea
  /\ results.recommendations[5] = PanelUpgrade

\* C16 as stated: the increase-panel-area advisory is present if and only if
\* missionViability is false.
C16_AdvisoryIffNotViable ==
  ResultsCalculated => (Recommends(IncreasePanelArea) <=> ~results.missionViability)

\* C16 amended: the increase-panel-area advisory is present if and only if
\* missionViability is false, for every result whose totalEnergyOutput is a number;
\* when totalEnergyOutput is NaN the mission is not viable and the advisory is absent.
C16_AdvisoryIffNotViableUnlessNaN ==
  ResultsCalculated =>
    IF IsNaN(results.totalEnergyOutput)
      THEN ~results.missionViability /\ ~Recommends(IncreasePanelArea)
      ELSE Recommends(IncreasePanelArea) <=> ~results.missionViability

\* C16 witness: a result whose total is a number below 1000: not viable, advisory present.
C16_Witness ==
  /\ ResultsCalculated
  /\ Below(results.totalEnergyOutput, 1000) /\ Above(results.totalEnergyOutput, 0)
  /\ ~results.missionViability /\ Recommends(IncreasePanelArea)

\* C17: the modular-battery advisory is present iff batteryRequired > 2000, the
\* panel-upgrade advisory iff systemEfficiency < 0.20; exactly 2000 and exactly
\* 0.20 do not fire.
C17_BatteryAndUpgradeAdvisories ==
  ResultsCalculated =>
    /\ Recommends(ModularBattery) <=> Above(results.batteryRequired, 2000)
    /\ Recommends(PanelUpgrade) <=>
         5 * parameters.systemEfficiency[1] < parameters.systemEfficiency[2]
    /\ results.batteryRequired = Num(2000) => ~Recommends(ModularBattery)
    /\ parameters.systemEfficiency = Rat(1, 5) => ~Recommends(PanelUpgrade)

\* C17 witness: a result with batteryRequired exactly 2000 and systemEfficiency
\* exactly 0.20, with neither advisory.
C17_Witness ==
  /\ ResultsCalculated
  /\ results.batteryRequired = Num(2000) /\ parameters.systemEfficiency = Rat(1, 5)
  /\ ~Recommends(ModularBattery) /\ ~Recommends(PanelUpgrade)

(***************************************************************************)
(* Frame and empty input.                                                  *)
(***************************************************************************)
\* C19: calculateMetrics leaves its input series unchanged, calculateMissionEnergy
\* leaves its metrics and parameters unchanged, and each writes nothing but its result.
C19_CallsLeaveArgumentsUnchanged ==
  [][/\ metrics' # metrics =>
          nasaData' = nasaData /\ parameters' = parameters /\ results' = results
     /\ results' # results =>
          nasaData' = nasaData /\ metrics' = metrics /\ parameters' = parameters]_vars

\* C19 witness: both calls have returned and their arguments still yield their results.
C19_Witness ==
  /\ MetricsCalculated /\ ResultsCalculated
  /\ metrics = calculateMetrics(nasaData)
  /\ results = calculateMissionEnergy(metrics, parameters)

SolarMetricsFields ==
  {"dailyIrradiance", "efficiency", "temperature", "peakOutput", "averageOutput", "variance"}

\* C20: calculateMetrics on an empty irradiance or temperature series raises no
\* error: the call returns a SolarMetrics whose mean of the empty series is NaN.
C20_EmptySeriesGivesNaN ==
  MetricsCalculated =>
    /\ DOMAIN metrics = SolarMetricsFields
    /\ IrradianceCount = 0 =>
         IsNaN(metrics.dailyIrradiance) /\ IsNaN(metrics.averageOutput)
    /\ TemperatureCount = 0 => IsNaN(metrics.temperature)

\* C20 witness: the result for two empty series, with NaN means.
C20_Witness ==
  /\ MetricsCalculated /\ IrradianceCount = 0 /\ TemperatureCount = 0
  /\ IsNaN(metrics.dailyIrradiance) /\ IsNaN(metrics.temperature)

(***************************************************************************)
(* SolarCalculator.calculateSystemLosses and calculateOptimalTilt: static, *)
(* stateless, each called on arguments of the caller's choosing.           *)
(***************************************************************************)
\* temperatures in degrees Celsius, with both thresholds and NaN
LossTemperatures ==
  {NaN, Num(-45), Num(-11), Num(-10), Num(20), Num(35), Rat(71, 2), Num(50)}

\* relative humidities in percent, with the threshold, 0 and NaN
LossHumidities == {NaN, Num(0), Num(60), Num(80), Rat(161, 2), Num(100)}

\* the arguments of a call: humidity is optional
LossArgumentInputs ==
  [temperature : LossTemperatures]
    \cup [temperature : LossTemperatures, humidity : LossHumidities]

\* latitudes in degrees, -90 to 90
LatitudeInputs ==
  {Num(-90), Rat(-285721, 10000), Num(-1), Num(0), Rat(1, 2), Num(45), Num(90)}

InitHelpers ==
  /\ lossArguments \in LossArgumentInputs
  /\ latitude \in LatitudeInputs
  /\ losses = Null
  /\ tilt = Null
  /\ CalculatorIdle /\ ProxyIdle /\ StorageConstructed /\ LegacyConstructed

\* SolarCalculator.calculateSystemLosses(temperature, humidity)
CalculateSystemLosses ==
  /\ losses = Null
  /\ losses' = calculateSystemLosses(lossArguments)
  /\ UNCHANGED <<lossArguments, latitude, tilt>>
  /\ UNCHANGED <<calculatorVars, proxyVars, storageVars, legacyVars>>

\* SolarCalculator.calculateOptimalTilt(latitude)
CalculateOptimalTilt ==
  /\ tilt = Null
  /\ tilt' = calculateOptimalTilt(latitude)
  /\ UNCHANGED <<lossArguments, losses, latitude>>
  /\ UNCHANGED <<calculatorVars, proxyVars, storageVars, legacyVars>>

NextHelpers == CalculateSystemLosses \/ CalculateOptimalTilt

SpecHelpers == InitHelpers /\ [][NextHelpers]_vars

\* losses holds the result of calculateSystemLosses on lossArguments
LossesCalculated == losses # Null

\* tilt holds the result of calculateOptimalTilt(latitude)
TiltCalculated == tilt # Null

\* the number of hundredths added for the temperature
TemperatureHundredths ==
  IF Above(lossArguments.temperature, 35) THEN 2
  ELSE IF Below(lossArguments.temperature, -10) THEN 1
  ELSE 0

\* the number of hundredths added for the humidity
HumidityHundredths ==
  IF HumidityProvided(lossArguments) /\ Above(lossArguments.humidity, 80) THEN 1 ELSE 0

\* C21: calculateSystemLosses returns 0.14, plus 0.02 if temperature > 35, plus 0.01
\* if temperature < -10 (never both), plus 0.01 if humidity is provided and > 80
\* (exactly 80 adds nothing), and the result never exceeds 0.30.
C21_LossesAreBasePlusAdjustments ==
  LossesCalculated =>
    /\ losses = Rat(14 + TemperatureHundredths + HumidityHundredths, 100)
    /\ ~(Above(lossArguments.temperature, 35) /\ Below(lossArguments.temperature, -10))
    /\ (HumidityProvided(lossArguments) /\ lossArguments.humidity = Num(80)) =>
         losses = Rat(14 + TemperatureHundredths, 100)
    /\ IsFinite(losses) /\ 10 * losses[1] <= 3 * losses[2]

\* C21 witness: a call with a temperature above 35 and a humidity of exactly 80,
\* which returns 0.16.
C21_Witness ==
  /\ LossesCalculated
  /\ Above(lossArguments.temperature, 35)
  /\ HumidityProvided(lossArguments) /\ lossArguments.humidity = Num(80)
  /\ losses = Rat(16, 100)

\* C22: calculateOptimalTilt returns the absolute value of latitude for every
\* latitude in [-90, 90]: never negative, and the same for latitude and -latitude.
C22_TiltIsAbsoluteLatitude ==
  TiltCalculated =>
    /\ tilt = (IF latitude[1] < 0 THEN <<-latitude[1], latitude[2]>> ELSE latitude)
    /\ tilt[1] >= 0
    /\ tilt = calculateOptimalTilt(Neg(latitude))

\* C22 witness: the tilt for a southern latitude, which is the latitude negated.
C22_Witness ==
  /\ TiltCalculated /\ latitude[1] < 0
  /\ tilt = Neg(latitude) /\ tilt[1] > 0

\* the arguments with the humidity left out
WithoutHumidity(args) == [temperature |-> args.temperature]

YearDays == 1

\* the dates a day-stamp can name, as toISOString().split('T')[0] writes them
DayNames == <<"2024-01-01", "2024-01-02", "2024-01-03">>

\* new Date(): the last of the dates
Today == Len(DayNames)

\* new Date(text).getTime() in days: 0 stands for an Invalid Date
DateParse(text) ==
  IF \E k \in DOMAIN DayNames : DayNames[k] = text
    THEN CHOOSE k \in DOMAIN DayNames : DayNames[k] = text
  ELSE 0

\* date.toISOString().split('T')[0]
IsoDate(day) == DayNames[day]

\* parseFloat(text)
ParseFloat(text) ==
  IF text = "28.57" THEN Rat(2857, 100)
  ELSE IF text = "-80.65" THEN Rat(-8065, 100)
  ELSE NaN

\* what JSON.stringify writes for a number: null for NaN and the infinities
JsonNumber(a) == IF IsFinite(a) THEN a ELSE Null

\* req.query: every parameter may be left out, be empty, or be any text
QueryInputs ==
  UNION {[names -> {"", "28.57", "-80.65", "north", "2024-01-02", "2024-01-03"}] :
           names \in SUBSET {"lat", "lon", "startDate", "endDate"}}

\* the query's plausible values for each parameter
Queries ==
  {q \in QueryInputs :
     /\ "lat" \in DOMAIN q => q.lat \in {"", "28.57", "north"}
     /\ "lon" \in DOMAIN q => q.lon \in {"", "-80.65"}
     /\ "startDate" \in DOMAIN q => q.startDate \in {"", "2024-01-02", "north"}
     /\ "endDate" \in DOMAIN q => q.endDate \in {"2024-01-02", "2024-01-03"}}

\* !value for a query parameter: it is left out or empty
Missing(q, name) == IF name \in DOMAIN q THEN q[name] = "" ELSE TRUE

\* startDate || the day a year ago
StartOf(q) == IF Missing(q, "startDate") THEN IsoDate(Today - YearDays) ELSE q.startDate

\* endDate || today
EndOf(q) == IF Missing(q, "endDate") THEN IsoDate(Today) ELSE q.endDate

\* nasaUrl
NasaUrl(q) == [longitude |-> q.lon, latitude |-> q.lat, start |-> StartOf(q), end |-> EndOf(q)]

\* the values (Math.random() - 0.5) * 2 takes in turn, repeating
RandomStreams == [1..2 -> {Num(-1), Rat(1, 2)}]

\* the days the loop of generateMockData visits: none if either date is invalid
MockDays(startDate, endDate) ==
  IF DateParse(startDate) = 0 \/ DateParse(endDate) = 0 THEN {}
  ELSE DateParse(startDate)..DateParse(endDate)

\* generateMockData(startDate, endDate, baseValue), drawing from the stream after
\* `drawn` draws were made
generateMockData(startDate, endDate, baseValue, stream, drawn) ==
  LET days == MockDays(startDate, endDate)
      first == DateParse(startDate)
  IN [dateStr \in {IsoDate(day) : day \in days} |->
        LET variation == stream[((drawn + DateParse(dateStr) - first) % Len(stream)) + 1]
        IN MathMax2(Num(0), Add(baseValue, variation))]

\* mockData
MockData(q, stream) ==
  LET start == StartOf(q)
      end == EndOf(q)
      n == Cardinality(MockDays(start, end))
  IN [geometry |-> [coordinates |-> <<JsonNumber(ParseFloat(q.lon)),
                                      JsonNumber(ParseFloat(q.lat))>>],
      properties |-> [parameter |->
        [ALLSKY_SFC_SW_DWN |-> generateMockData(start, end, Rat(55, 10), stream, 0),
         T2M |-> generateMockData(start, end, Num(25), stream, n),
         RH2M |-> generateMockData(start, end, Num(60), stream, 2 * n),
         WS10M |-> generateMockData(start, end, Num(3), stream, 3 * n),
         CLOUD_AMT |-> generateMockData(start, end, Num(30), stream, 4 * n)]]]

\* what the upstream service may send as the body of an OK answer
UpstreamTexts ==
  {"{\"properties\":{\"parameter\":{}}}", "{ \"properties\": { \"parameter\": {} } }",
   "{\"messages\":[]}", "<html>Bad Gateway</html>"}

\* JSON.parse(text): Null stands for a SyntaxError
JsonParse(text) ==
  IF text \in {"{\"properties\":{\"parameter\":{}}}",
               "{ \"properties\": { \"parameter\": {} } }"}
    THEN [properties |-> [parameter |-> EmptyMap]]
  ELSE IF text = "{\"messages\":[]}" THEN [messages |-> <<>>]
  ELSE Null

\* res.status(code).json(value)
Json(code, value) == [status |-> code, json |-> value]

InitProxy ==
  /\ ProxyIdle
  /\ CalculatorIdle /\ HelpersIdle /\ StorageConstructed /\ LegacyConstructed

\* the handler from the request to the await of fetch
Receive ==
  /\ handler = "idle"
  /\ \E q \in Queries :
       /\ query' = q
       /\ \/ /\ (Missing(q, "lat") \/ Missing(q, "lon"))
             /\ responses' = Append(responses,
                               Json(400, [error |-> "Latitude and longitude are required"]))
             /\ handler' = "done"
             /\ UNCHANGED upstreamRequests
          \/ /\ ~(Missing(q, "lat") \/ Missing(q, "lon"))
             /\ upstreamRequests' = Append(upstreamRequests,
                                     [url |-> NasaUrl(q), answer |-> "none", text |-> ""])
             /\ handler' = "fetching"
             /\ UNCHANGED responses
  /\ UNCHANGED <<calculatorVars, helperVars, storageVars, legacyVars>>

\* the handler after fetch, with no mock data: a non-OK answer is thrown as an
\* error, as GET /api/geocode does
FetchSettlesWithoutFallback ==
  /\ handler = "fetching"
  /\ \/ /\ upstreamRequests' = [upstreamRequests EXCEPT ![1].answer = "rejected"]
        /\ responses' = Append(responses,
             Json(500, [error |-> "Failed to fetch solar data from NASA POWER API"]))
        /\ handler' = "done"
     \/ /\ upstreamRequests' = [upstreamRequests EXCEPT ![1].answer = "not ok"]
        /\ responses' = Append(responses,
             Json(500, [error |-> "Failed to fetch solar data from NASA POWER API"]))
        /\ handler' = "done"
     \/ /\ \E text \in UpstreamTexts :
             upstreamRequests' = [upstreamRequests EXCEPT ![1].answer = "ok", ![1].text = text]
        /\ handler' = "parsing"
        /\ UNCHANGED responses
  /\ UNCHANGED query
  /\ UNCHANGED <<calculatorVars, helperVars, storageVars, legacyVars>>

\* the handler from the settling of fetch to the await of response.json(), or to
\* its end: fetch rejects, or resolves with a non-OK or an OK answer
FetchSettles ==
  /\ handler = "fetching"
  /\ \/ /\ upstreamRequests' = [upstreamRequests EXCEPT ![1].answer = "rejected"]
        /\ responses' = Append(responses,
             Json(500, [error |-> "Failed to fetch solar data from NASA POWER API"]))
        /\ handler' = "done"
     \/ /\ upstreamRequests' = [upstreamRequests EXCEPT ![1].answer = "not ok"]
        /\ \E stream \in RandomStreams :
             responses' = Append(responses, Json(200, MockData(query, stream)))
        /\ handler' = "done"
     \/ /\ \E text \in UpstreamTexts :
             upstreamRequests' = [upstreamRequests EXCEPT ![1].answer = "ok", ![1].text = text]
        /\ handler' = "parsing"
        /\ UNCHANGED responses
  /\ UNCHANGED query
  /\ UNCHANGED <<calculatorVars, helperVars, storageVars, legacyVars>>

\* the handler from the settling of response.json() to its end
BodySettles ==
  /\ handler = "parsing"
  /\ LET data == JsonParse(upstreamRequests[1].text)
     IN \/ /\ data = Null
           /\ responses' = Append(responses,
                Json(500, [error |-> "Failed to fetch solar data from NASA POWER API"]))
        \/ /\ data # Null
           /\ responses' = Append(responses, Json(200, data))
  /\ handler' = "done"
  /\ UNCHANGED <<query, upstreamRequests>>
  /\ UNCHANGED <<calculatorVars, helperVars, storageVars, legacyVars>>

NextProxy == Receive \/ FetchSettles \/ BodySettles

SpecProxy == InitProxy /\ [][NextProxy]_vars

\* the handler has run to its end
Handled == handler = "done"

\* the query lacks lat or lon
LatOrLonMissing == Missing(query, "lat") \/ Missing(query, "lon")

\* what became of the one upstream call: "none" while no call was made or it is
\* in flight
UpstreamAnswer == IF upstreamRequests = <<>> THEN "none" ELSE upstreamRequests[1].answer

\* the upstream answered OK with a body that is not JSON
UpstreamBodyUnparseable ==
  UpstreamAnswer = "ok" /\ JsonParse(upstreamRequests[1].text) = Null

MockParameters == {"ALLSKY_SFC_SW_DWN", "T2M", "RH2M", "WS10M", "CLOUD_AMT"}

\* the body carries a generated series for each of the five parameters, one value
\* for every day of the requested range
CarriesMockSeries(body) ==
  /\ DOMAIN body = {"geometry", "properties"}
  /\ DOMAIN body.properties.parameter = MockParameters
  /\ \A name \in MockParameters :
       DOMAIN body.properties.parameter[name] =
         {IsoDate(day) : day \in MockDays(StartOf(query), EndOf(query))}

\* C23: every request ends in exactly one response: 400 without an upstream call
\* when lat or lon is missing; the upstream body passed through when the upstream
\* answers OK; a successful response with mock series for all five parameters when
\* it answers non-OK; 500 only when the upstream call or the body parsing throws.
C23_OneResponsePerRequest ==
  /\ Len(responses) <= 1
  /\ Len(upstreamRequests) <= 1
  /\ ~Handled => responses = <<>>
  /\ Handled =>
       /\ Len(responses) = 1
       /\ LatOrLonMissing <=> responses[1].status = 400
       /\ LatOrLonMissing => upstreamRequests = <<>>
       /\ ~LatOrLonMissing => UpstreamAnswer \in {"ok", "not ok", "rejected"}
       /\ (UpstreamAnswer = "ok" /\ ~UpstreamBodyUnparseable) =>
            responses[1] = Json(200, JsonParse(upstreamRequests[1].text))
       /\ UpstreamAnswer = "not ok" =>
            /\ responses[1].status = 200
            /\ "error" \notin DOMAIN responses[1].json
            /\ CarriesMockSeries(responses[1].json)
       /\ responses[1].status = 500 <=>
            (UpstreamAnswer = "rejected" \/ UpstreamBodyUnparseable)
       /\ responses[1].status \in {200, 400, 500}

\* C23 witness: the upstream answered non-OK to a request for two days, and the one
\* response is a 200 with two-day mock series.
C23_Witness ==
  /\ Handled /\ UpstreamAnswer = "not ok"
  /\ Len(responses) = 1 /\ responses[1].status = 200
  /\ CarriesMockSeries(responses[1].json)
  /\ Cardinality(DOMAIN responses[1].json.properties.parameter.T2M) = 2

(***************************************************************************)
(* The legacy SolarLaunchApp: a click on the map selects a location and    *)
(* fetches its data, from requestCache or from the proxy; the response is  *)
(* handled whenever it arrives.  Times are in minutes.                     *)
(***************************************************************************)
\* the fetches the app may make
MaxRequests == 3
\* the times the clock may advance
MaxTicks == 2
\* the minutes the clock advances at a time
TickMinutes == 40
\* 3600000 ms
Hour == 60

\* places on the map, latitude and longitude in thousandths of a degree; the
\* first two are 0.004 degrees apart
Locations ==
  { [lat |-> -3107, lng |-> -60021],
    [lat |-> -3111, lng |-> -60021],
    [lat |-> 48857, lng |-> 2352] }

\* x.toFixed(2) for x in thousandths, in hundredths
ToFixed2(x) == Sign(x) * ((Abs(x) + 5) \div 10)

\* cacheKey
CacheKey(lat, lon) == <<ToFixed2(lat), ToFixed2(lon)>>

\* what the proxy may answer to a fetch for a place: its data, a body without
\* properties, or no usable answer (a non-OK status, a network or a JSON error)
Answers == {"data", "no properties", "error"}

\* the body of the n-th fetch's answer
BodyOf(request, answer) ==
  IF answer = "data"
    THEN [coordinates |-> <<request.lon, request.lat>>, properties |-> "parameter",
          request |-> request.n]
  ELSE [coordinates |-> <<request.lon, request.lat>>, request |-> request.n]

\* requestCache[cacheKey] is truthy
Cached(key) == key \in DOMAIN requestCache

\* obj[key] = value
Put(obj, key, value) ==
  [k \in DOMAIN obj \cup {key} |-> IF k = key THEN value ELSE obj[k]]

\* processSolarData(data): what solarData is afterwards
processSolarData(data) == IF "properties" \notin DOMAIN data THEN solarData ELSE data

InitLegacy ==
  /\ LegacyConstructed
  /\ CalculatorIdle /\ HelpersIdle /\ ProxyIdle /\ StorageConstructed

\* fetchSolarData(lat, lon), up to the fetch
fetchSolarData(lat, lon) ==
  LET now == dateNow
      cacheKey == CacheKey(lat, lon)
  IN IF Cached(cacheKey) /\ now - lastRequestTime < Hour
       THEN /\ solarData' = processSolarData(requestCache[cacheKey])
            /\ lastServed' = [key |-> cacheKey, age |-> now - storedAt[cacheKey]]
            /\ UNCHANGED <<inFlight, requested>>
     ELSE /\ inFlight' = inFlight \cup
                           {[lat |-> lat, lon |-> lon, now |-> now, n |-> requested + 1]}
          /\ requested' = requested + 1
          /\ UNCHANGED <<solarData, lastServed>>

\* handleMapClick(e)
HandleMapClick ==
  \E latlng \in Locations :
    /\ requested < MaxRequests
    /\ currentLocation' = latlng
    /\ fetchSolarData(latlng.lat, latlng.lng)
    /\ UNCHANGED <<lastRequestTime, requestCache, dateNow, storedAt>>
    /\ UNCHANGED <<calculatorVars, helperVars, proxyVars, storageVars>>

\* the promise chain of fetchSolarData: the answer to any fetch in flight arrives
FetchSettlesLegacy ==
  \E request \in inFlight, answer \in Answers :
    /\ inFlight' = inFlight \ {request}
    /\ IF answer = "error"
         THEN UNCHANGED <<requestCache, lastRequestTime, solarData, storedAt>>
       ELSE LET data == BodyOf(request, answer)
                cacheKey == CacheKey(request.lat, request.lon)
            IN /\ requestCache' = Put(requestCache, cacheKey, data)
               /\ lastRequestTime' = request.now
               /\ solarData' = processSolarData(data)
               /\ storedAt' = Put(storedAt, cacheKey, dateNow)
    /\ UNCHANGED <<currentLocation, dateNow, requested, lastServed>>
    /\ UNCHANGED <<calculatorVars, helperVars, proxyVars, storageVars>>

\* time passes
Tick ==
  /\ dateNow < PageLoadTime + MaxTicks * TickMinutes
  /\ dateNow' = dateNow + TickMinutes
  /\ UNCHANGED <<currentLocation, solarData, lastRequestTime, requestCache,
                 inFlight, requested, storedAt, lastServed>>
  /\ UNCHANGED <<calculatorVars, helperVars, proxyVars, storageVars>>

NextLegacy == HandleMapClick \/ FetchSettlesLegacy \/ Tick

SpecLegacy == InitLegacy /\ [][NextLegacy]_vars

\* C24 as stated: an entry stored more than one hour ago is never served from the
\* cache: whenever the cache answers, the entry it serves is less than one hour old.
C24_ServedEntriesUnderOneHourOld ==
  lastServed # Null => lastServed.age < Hour

\* C29 as stated: once no fetch is in flight and the answer to the fetch for the
\* most recently selected location has arrived with data, solarData holds that
\* answer.
C29_LatestSelectionHeld ==
  LET key == CacheKey(currentLocation.lat, currentLocation.lng)
  IN (/\ currentLocation # Null
      /\ inFlight = {}
      /\ Cached(key)
      /\ requestCache[key].request = requested
      /\ "properties" \in DOMAIN requestCache[key])
       => solarData = requestCache[key]

(***************************************************************************)
(* MemStorage behind the project and data routes (server/storage,          *)
(* server/routes).  A storage method runs without interruption, and each   *)
(* route awaits one, so a route is one step.                               *)
(***************************************************************************)
\* the routes that store something (each reads new Date() once)
MaxWrites == 3

\* a JSON value that is not a string, where the schema wants one
NotAString == "<not a string>"

\* randomUUID(): the identifiers it returns, in the order of the calls
Uuids == <<"uuid-1", "uuid-2", "uuid-3", "uuid-4">>

\* req.params.id
RouteIds == {"ksc-001", "uuid-1", "no-such-id"}

\* req.body of the project routes: a JSON object with a name, a description,
\* a name that is not a string, a name and an id, or nothing
ProjectBodyInputs ==
  { [name |-> "Site B"],
    [description |-> "second site"],
    [name |-> NotAString],
    [name |-> "Site B", id |-> "uuid-2"],
    EmptyMap }

\* req.body of the data route
RecordBodyInputs ==
  { [date |-> "2024-01-02"], [date |-> "2024-01-03", projectId |-> "ksc-001"],
    [date |-> NotAString] }

\* the object with the keys of `keys` only: what a zod object schema keeps of its
\* input
Strip(obj, keys) == [k \in DOMAIN obj \cap keys |-> obj[k]]

\* { ...a, ...b }
Spread(a, b) == [k \in DOMAIN a \cup DOMAIN b |-> IF k \in DOMAIN b THEN b[k] ELSE a[k]]

\* every value the schema wants as a string is one
WellTyped(obj) == \A k \in DOMAIN obj : obj[k] # NotAString

\* insertSolarAnalysisProjectSchema.partial().parse that keeps unknown keys
ParsePartialProjectPassthrough(body) ==
  IF WellTyped(Strip(body, {"name", "description"})) THEN body ELSE Null

\* insertSolarAnalysisProjectSchema.partial().parse(body): Null stands for a ZodError
ParsePartialProject(body) ==
  LET data == Strip(body, {"name", "description"})
  IN IF WellTyped(data) THEN data ELSE Null

\* insertSolarAnalysisProjectSchema.parse(body)
ParseProject(body) ==
  LET data == Strip(body, {"name", "description"})
  IN IF "name" \in DOMAIN data /\ WellTyped(data) THEN data ELSE Null

\* insertSolarDataRecordSchema.parse({ ...body, projectId })
ParseRecord(body, projectId) ==
  LET data == Strip(Spread(body, [projectId |-> projectId]), {"projectId", "date"})
  IN IF "date" \in DOMAIN data /\ WellTyped(data) THEN data ELSE Null

\* getSolarProject(id): Null stands for undefined
getSolarProject(projects, id) == IF id \in DOMAIN projects THEN projects[id] ELSE Null

\* getAllSolarProjects(), without the order
getAllSolarProjects(projects) == {projects[id] : id \in DOMAIN projects}

\* createSolarProject(project): the new project
createSolarProject(project, id, now) ==
  Spread(project, [id |-> id, createdAt |-> now, updatedAt |-> now])

\* updateSolarProject that stores the values under the id when it finds none
updateSolarProjectUpsert(projects, id, project, now) ==
  LET existing == IF id \in DOMAIN projects THEN projects[id] ELSE [id |-> id, createdAt |-> now]
      updated == Spread(Spread(existing, project), [updatedAt |-> now])
  IN [projects |-> Put(projects, id, updated), returned |-> updated]

\* updateSolarProject(id, project): the map afterwards and what is returned
updateSolarProject(projects, id, project, now) ==
  LET existing == getSolarProject(projects, id)
  IN IF existing = Null THEN [projects |-> projects, returned |-> Null]
     ELSE LET updated == Spread(Spread(existing, project), [updatedAt |-> now])
          IN [projects |-> Put(projects, id, updated), returned |-> updated]

\* deleteSolarProject that reports success whether or not it found the project
deleteSolarProjectAlwaysTrue(projects, id) ==
  [projects |-> [k \in DOMAIN projects \ {id} |-> projects[k]], returned |-> TRUE]

\* deleteSolarProject(id): the map afterwards and what Map.delete returns
deleteSolarProject(projects, id) ==
  [projects |-> [k \in DOMAIN projects \ {id} |-> projects[k]],
   returned |-> id \in DOMAIN projects]

\* getSolarDataForProject(projectId), without the order
getSolarDataForProject(records, projectId) ==
  {records[id] : id \in {k \in DOMAIN records : records[k].projectId = projectId}}

\* createSolarDataRecord(record): the new record
createSolarDataRecord(record, id, now) == Spread(record, [id |-> id, createdAt |-> now])

\* what a route leaves in lastRoute
RouteOutcome(route, id, called, deleted, project, records, status) ==
  [route |-> route, id |-> id, called |-> called, deleted |-> deleted,
   project |-> project, records |-> records, status |-> status]

InitStorage ==
  /\ StorageConstructed
  /\ CalculatorIdle /\ HelpersIdle /\ ProxyIdle /\ LegacyConstructed

\* GET /api/projects/:id
GetProject ==
  \E id \in RouteIds :
    LET project == getSolarProject(solarProjects, id)
    IN /\ lastRoute' = RouteOutcome("GET /api/projects/:id", id, TRUE, FALSE, project, {},
                                IF project = Null THEN 404 ELSE 200)
       /\ UNCHANGED <<solarProjects, solarDataRecords, clock>>
       /\ UNCHANGED <<calculatorVars, helperVars, proxyVars, legacyVars>>

\* POST /api/projects
PostProject ==
  \E body \in ProjectBodyInputs :
    LET validatedData == ParseProject(body)
        id == Uuids[clock + 1]
        now == clock + 1
    IN /\ clock < MaxWrites
       /\ IF validatedData = Null
            THEN /\ lastRoute' = RouteOutcome("POST /api/projects", "", FALSE, FALSE, Null, {}, 400)
                 /\ UNCHANGED <<solarProjects, clock>>
          ELSE LET project == createSolarProject(validatedData, id, now)
               IN /\ solarProjects' = Put(solarProjects, id, project)
                  /\ clock' = now
                  /\ lastRoute' = RouteOutcome("POST /api/projects", id, TRUE, FALSE, project, {}, 201)
       /\ UNCHANGED solarDataRecords
       /\ UNCHANGED <<calculatorVars, helperVars, proxyVars, legacyVars>>

\* PUT /api/projects/:id
PutProject ==
  \E id \in RouteIds, body \in ProjectBodyInputs :
    LET validatedData == ParsePartialProject(body)
        now == clock + 1
    IN /\ clock < MaxWrites
       /\ IF validatedData = Null
            THEN /\ lastRoute' = RouteOutcome("PUT /api/projects/:id", id, FALSE, FALSE, Null, {}, 400)
                 /\ UNCHANGED <<solarProjects, clock>>
          ELSE LET call == updateSolarProject(solarProjects, id, validatedData, now)
               IN /\ solarProjects' = call.projects
                  /\ clock' = IF call.returned = Null THEN clock ELSE now
                  /\ lastRoute' = RouteOutcome("PUT /api/projects/:id", id, TRUE, FALSE,
                                           call.returned, {},
                                           IF call.returned = Null THEN 404 ELSE 200)
       /\ UNCHANGED solarDataRecords
       /\ UNCHANGED <<calculatorVars, helperVars, proxyVars, legacyVars>>

\* DELETE /api/projects/:id over a storage that also drops the project's records
DeleteProjectCascade ==
  \E id \in RouteIds :
    LET call == deleteSolarProject(solarProjects, id)
    IN /\ solarProjects' = call.projects
       /\ solarDataRecords' = [k \in {r \in DOMAIN solarDataRecords :
                                        solarDataRecords[r].projectId # id} |->
                                 solarDataRecords[k]]
       /\ lastRoute' = RouteOutcome("DELETE /api/projects/:id", id, TRUE, call.returned, Null, {},
                                IF call.returned THEN 204 ELSE 404)
       /\ UNCHANGED clock
       /\ UNCHANGED <<calculatorVars, helperVars, proxyVars, legacyVars>>

\* DELETE /api/projects/:id
DeleteProject ==
  \E id \in RouteIds :
    LET call == deleteSolarProject(solarProjects, id)
    IN /\ solarProjects' = call.projects
       /\ lastRoute' = RouteOutcome("DELETE /api/projects/:id", id, TRUE, call.returned, Null, {},
                                IF call.returned THEN 204 ELSE 404)
       /\ UNCHANGED <<solarDataRecords, clock>>
       /\ UNCHANGED <<calculatorVars, helperVars, proxyVars, legacyVars>>

\* GET /api/projects/:id/data, without a date range in the query
GetData ==
  \E id \in RouteIds :
    /\ lastRoute' = RouteOutcome("GET /api/projects/:id/data", id, TRUE, FALSE, Null,
                             getSolarDataForProject(solarDataRecords, id), 200)
    /\ UNCHANGED <<solarProjects, solarDataRecords, clock>>
    /\ UNCHANGED <<calculatorVars, helperVars, proxyVars, legacyVars>>

\* POST /api/projects/:id/data
PostData ==
  \E id \in RouteIds, body \in RecordBodyInputs :
    LET validatedData == ParseRecord(body, id)
        recordId == Uuids[clock + 1]
        now == clock + 1
    IN /\ clock < MaxWrites
       /\ IF validatedData = Null
            THEN /\ lastRoute' = RouteOutcome("POST /api/projects/:id/data", id, FALSE, FALSE,
                                          Null, {}, 400)
                 /\ UNCHANGED <<solarDataRecords, clock>>
          ELSE LET record == createSolarDataRecord(validatedData, recordId, now)
               IN /\ solarDataRecords' = Put(solarDataRecords, recordId, record)
                  /\ clock' = now
                  /\ lastRoute' = RouteOutcome("POST /api/projects/:id/data", id, TRUE, FALSE,
                                           Null, {record}, 201)
       /\ UNCHANGED solarProjects
       /\ UNCHANGED <<calculatorVars, helperVars, proxyVars, legacyVars>>

NextStorage ==
  GetProject \/ PostProject \/ PutProject \/ DeleteProject \/ GetData \/ PostData

SpecStorage == InitStorage /\ [][NextStorage]_vars

\* this step handled the route (a step that repeats the last route with the same
\* outcome changes nothing)
RouteStep(route) == lastRoute' # lastRoute /\ lastRoute'.route = route

\* the last route handled
LastRoute(route) == lastRoute # Null /\ lastRoute.route = route

\* every project is stored under its own id
KeysAreIds == \A id \in DOMAIN solarProjects : solarProjects[id].id = id

\* C25: every entry of the project map is stored under a key equal to the
\* project's own id, and no step (updateSolarProject least of all) changes the id
\* or createdAt of a stored project; an update returns the project with its id.
C25_KeysAreIdsUpdateKeepsIdentity ==
  /\ []KeysAreIds
  /\ [][/\ \A id \in DOMAIN solarProjects \cap DOMAIN solarProjects' :
              /\ solarProjects'[id].id = solarProjects[id].id
              /\ solarProjects'[id].createdAt = solarProjects[id].createdAt
        /\ (RouteStep("PUT /api/projects/:id") /\ lastRoute'.status = 200) =>
              /\ lastRoute'.project = solarProjects'[lastRoute'.id]
              /\ lastRoute'.project.id = lastRoute'.id
              /\ lastRoute'.project.updatedAt = clock']_vars

\* C25 witness: the example project after an update that renamed it, next to a
\* created project: same key, id and createdAt, a later updatedAt.
C25_Witness ==
  /\ LastRoute("PUT /api/projects/:id") /\ lastRoute.status = 200
  /\ lastRoute.id = "ksc-001"
  /\ solarProjects["ksc-001"].name = "Site B"
  /\ solarProjects["ksc-001"].id = "ksc-001"
  /\ solarProjects["ksc-001"].createdAt = 0
  /\ solarProjects["ksc-001"].updatedAt > 0
  /\ "uuid-1" \in DOMAIN solarProjects

\* C26: updateSolarProject with an id that is not in the store returns undefined
\* and leaves the project map unchanged, and PUT /api/projects/:id answers 404.
C26_UpdateOfUnknownIdChangesNothing ==
  [][(/\ RouteStep("PUT /api/projects/:id")
      /\ lastRoute'.called
      /\ lastRoute'.id \notin DOMAIN solarProjects) =>
        /\ lastRoute'.project = Null
        /\ solarProjects' = solarProjects
        /\ lastRoute'.status = 404]_vars

\* C26 witness: a PUT with valid data for an id that is not stored was answered
\* 404, and the id is still not stored.
C26_Witness ==
  /\ LastRoute("PUT /api/projects/:id") /\ lastRoute.called
  /\ lastRoute.project = Null /\ lastRoute.status = 404
  /\ lastRoute.id \notin DOMAIN solarProjects

\* C27: deleteSolarProject(id) returns true exactly when a project with that id
\* was stored; afterwards getSolarProject(id) is undefined, getAllSolarProjects
\* omits it, every other project is unchanged, and another delete of the id returns
\* false; the route answers 204 for true and 404 for false.
C27_DeleteRemovesExactlyThatProject ==
  [][RouteStep("DELETE /api/projects/:id") =>
       /\ lastRoute'.deleted <=> lastRoute'.id \in DOMAIN solarProjects
       /\ getSolarProject(solarProjects', lastRoute'.id) = Null
       /\ \A project \in getAllSolarProjects(solarProjects') : project.id # lastRoute'.id
       /\ DOMAIN solarProjects' = DOMAIN solarProjects \ {lastRoute'.id}
       /\ \A id \in DOMAIN solarProjects' : solarProjects'[id] = solarProjects[id]
       /\ ~deleteSolarProject(solarProjects', lastRoute'.id).returned
       /\ lastRoute'.status = (IF lastRoute'.deleted THEN 204 ELSE 404)]_vars

\* C27 witness: the example project was deleted, a second DELETE of it returned
\* false and was answered 404, and another project is still stored.
C27_Witness ==
  /\ LastRoute("DELETE /api/projects/:id") /\ lastRoute.id = "ksc-001"
  /\ ~lastRoute.deleted /\ lastRoute.status = 404
  /\ DOMAIN solarProjects = {"uuid-1"}

ProjectRoutes ==
  {"GET /api/projects/:id", "POST /api/projects", "PUT /api/projects/:id",
   "DELETE /api/projects/:id"}

====
